---- MODULE Spec2Model ----
(***************************************************************************)
(* aiosonos: the local websockets API (api/websockets.py) and the client   *)
(* state built on it (client.py, group.py, player.py).                     *)
(*                                                                         *)
(* Everything runs on one asyncio event loop: a coroutine runs without     *)
(* interruption from one await to the next, so every action below is the   *)
(* code between two suspension points of one coroutine.                    *)
(*                                                                         *)
(*   Spec        the websockets API: connect, disconnect, send_command,    *)
(*               the receive loop of start_listening.                      *)
(*   SpecClient  the client's groups and player, kept up to date from      *)
(*               groups events (_handle_groups_event, _setup_group).       *)
(*   SpecEvents  the client's subscribers: subscribe, the handle it        *)
(*               returns, signal_event and the callbacks it schedules.     *)
(*   SpecConn    the life of the connection: connect, disconnect and       *)
(*               start_listening called again and again, one command.      *)
(*   SpecTasks   the text frames of the receive loop (replies, events,     *)
(*               malformed frames), send_command_no_wait and the tasks     *)
(*               that create_task tracks, one command.                     *)
(*   SpecSupervise  the tracked tasks from create_task to their done       *)
(*               callback, next to a listening connection.                 *)
(*   SpecDeferred  the client with two _setup_group tasks waiting.         *)
(***************************************************************************)
EXTENDS Integers, Sequences, FiniteSets, TLC

\* ------------------------------------------------------------------ bounds
\* send_command calls issued over a run (one per caller)
MaxCmds == 2
\* sockets opened by connect() over a run
MaxSocks == 1
\* sockets opened over a run of SpecConn
MaxConns == 2
\* tasks in _tracked_tasks at a time
MaxTracked == 1

\* _setup_group tasks created and not yet run
MaxTasks == 1
\* _setup_group tasks waiting at a time where two tasks for one group matter
MaxDeferred == 2
\* subscribe() calls over a run
MaxSubs == 2
\* callbacks scheduled and not yet run when an event is signalled
MaxScheduled == 1

Callers == 1..MaxCmds
CmdIds == 1..MaxCmds

VARIABLES
    ws_client,        \* _ws_client: 0 for None, else the index of a socket in socks
    socks,            \* the sockets opened so far: "open", "closing" or "closed"
    loop,             \* _loop is set
    stop_called,      \* _stop_called
    result_futures,   \* _result_futures: cmdId -> future
    next_cmd,         \* the number of the next send_command call
    caller,           \* each send_command call: where it is, its cmdId, how it ended
    listener,         \* the start_listening() coroutine
    disc,             \* a disconnect() call made by the user of the API
    conn,             \* a connect() call made by the user of the API (stopped
                      \* is history: a disconnect() returned during its handshake)
    at_disconnect     \* history: where each call was when disconnect() cancelled its future

apiVars == <<ws_client, socks, loop, stop_called, result_futures, next_cmd,
             caller, listener, disc, conn, at_disconnect>>

VARIABLES
    started,          \* the client's start_listening() has fetched the initial data
    groups,           \* _groups: a dict, so a list of groups in insertion order
    setup_tasks,      \* the _setup_group tasks created and not yet run, oldest first
    player,           \* _player: its _data and its _active_group
    raised,           \* the exception that left the last operation, or "none"
    signalled,        \* history: the events the last step passed to signal_event
    move,             \* history: the group of the managed player in the last events
    last              \* history: the client's last operation and the message it was given

clientVars == <<started, groups, setup_tasks, player, signalled, move, last>>

VARIABLES
    subscribers,      \* _subscribers: the listener tuples, in the order added
    handles,          \* the remove_listener closures that subscribe() returned
                      \* (history: called at all, returned without raising)
    scheduled         \* the callbacks call_soon_threadsafe holds, oldest first

eventVars == <<subscribers, handles, scheduled>>

VARIABLES
    tracked_tasks,    \* _tracked_tasks: the tasks of create_task, in the order created
    received,         \* history: the last text frame the receive loop was given
    logged            \* history: what the last task_done_callback logged

taskVars == <<tracked_tasks, received, logged>>

vars == <<apiVars, clientVars, eventVars, taskVars, raised>>

\* ---------------------------------------------------------------- futures
\* An asyncio.Future: pending, or done with a result, an exception or cancelled.
\* "from" is history: the cmdId in the header of the reply that resolved it.
NoData == [none |-> TRUE]
Pending == [st |-> "pending", val |-> NoData, from |-> 0]
Cancelled == [st |-> "cancelled", val |-> NoData, from |-> 0]
Result(m) == [st |-> "result", val |-> m.data, from |-> m.cmdId]
\* FailedCommand(msg_data["errorCode"], msg_data["reason"])
FailedCommand(m) ==
    [st |-> "exception",
     val |-> [errorCode |-> m.data.errorCode, reason |-> m.data.reason],
     from |-> m.cmdId]

\* ------------------------------------------------------- inbound messages
\* What ClientWebSocketResponse.receive() can return to the loop.  A TEXT
\* frame here is a command reply [header, body]: the header holds success
\* and cmdId; the body of a failed command is an ErrorResponse, whose
\* reason is NotRequired.
OkBody == [payload |-> "ok"]
ErrWithReason == [errorCode |-> "401", reason |-> "ERROR_INVALID_PARAMETER"]
ErrNoReason == [errorCode |-> "401"]

Replies ==
    {[type |-> "TEXT", success |-> TRUE, cmdId |-> k, data |-> OkBody] : k \in CmdIds}
    \cup {[type |-> "TEXT", success |-> FALSE, cmdId |-> k, data |-> d] :
             k \in CmdIds, d \in {ErrWithReason, ErrNoReason}}
CloseMsg == [type |-> "CLOSE"]
ErrorMsg == [type |-> "ERROR"]
Inbound == Replies \cup {CloseMsg, ErrorMsg}

\* A TEXT frame in full, [header, body]: the header holds success and cmdId
\* (a reply), type (an event), both or neither.  NoWaitId is the cmdId that
\* a send_command_no_wait drew.
NoWaitId == 0
Namespaces == <<"audioclip", "groups", "player_volume">>
EventTypeOf(ns) ==
    CASE ns = "audioclip" -> "audioClipStatus"
      [] ns = "groups" -> "groups"
      [] OTHER -> "playerVolume"

Headers ==
    {[success |-> b, cmdId |-> 1] : b \in BOOLEAN}
    \cup {[success |-> TRUE, cmdId |-> NoWaitId]}
    \cup {[success |-> TRUE, cmdId |-> 1, type |-> "groups"]}
    \cup {[type |-> t] : t \in {"groups", "playerVolume", "metadataStatus"}}
    \cup {[namespace |-> "groups"]}

Frames ==
    {[type |-> "TEXT", header |-> h,
      data |-> IF "success" \in DOMAIN h /\ ~h.success THEN ErrWithReason ELSE OkBody] :
        h \in Headers}
NoFrame == [type |-> "none"]

\* Frames that do not reach _handle_incoming_message as [header, body]: a
\* BINARY frame, a TEXT frame that is not JSON, JSON that is not a pair.
BinaryMsg == [type |-> "BINARY"]
NotJson == [type |-> "TEXT", json |-> FALSE]
NotPair == [type |-> "TEXT", json |-> TRUE, pair |-> FALSE]
Malformed == {BinaryMsg, NotJson, NotPair}

\* ------------------------------------------------------------- properties
\* connected: _ws_client is not None and not _ws_client.closed
Connected(ws, ss) == ws # 0 /\ ss[ws] # "closed"

\* ------------------------------------------- _handle_incoming_message
\* Future.set_result / set_exception raise InvalidStateError on a future
\* that is already done, and leave it as it is.
SetFuture(futs, k, v) ==
    IF futs[k].st = "pending"
    THEN [futs |-> [futs EXCEPT ![k] = v], exc |-> "none"]
    ELSE [futs |-> futs, exc |-> "InvalidStateError"]

\* A handler that resolves the oldest waiter of the table, whatever cmdId
\* the reply carries.
OldestKey(futs) == CHOOSE k \in DOMAIN futs : \A j \in DOMAIN futs : k <= j

HandleIncomingMessageOldestWaiter(futs, m) ==
    IF DOMAIN futs = {}
    THEN [futs |-> futs, exc |-> "none"]
    ELSE IF m.success
    THEN SetFuture(futs, OldestKey(futs), Result(m))
    ELSE IF "errorCode" \notin DOMAIN m.data \/ "reason" \notin DOMAIN m.data
    THEN [futs |-> futs, exc |-> "KeyError"]
    ELSE SetFuture(futs, OldestKey(futs), FailedCommand(m))

\* The branch `if "success" in raw[0]`: the new table and the exception
\* that leaves the handler ("none" when it returns).
HandleIncomingMessage(futs, m) ==
    IF m.cmdId \notin DOMAIN futs
    THEN [futs |-> futs, exc |-> "none"]
    ELSE IF m.success
    THEN SetFuture(futs, m.cmdId, Result(m))
    ELSE IF "errorCode" \notin DOMAIN m.data \/ "reason" \notin DOMAIN m.data
    THEN [futs |-> futs, exc |-> "KeyError"]
    ELSE SetFuture(futs, m.cmdId, FailedCommand(m))

\* CommandMessage(namespace=..., command=..., cmdId=...) of one command, and
\* the frame [command_message, options or {}] handed to _send_message
CommandMessage(id) == [namespace |-> "groups", command |-> "getGroups", cmdId |-> id]
Message(id) == <<CommandMessage(id), [options |-> "none"]>>

\* A task of _tracked_tasks: the coroutine it runs (of a namespace, or of a
\* message to send) and how far it is.
Task(target, arg) == [target |-> target, of |-> arg, st |-> "created"]

\* `for namespace in (...): if event_type == namespace.event_type`: the
\* first namespace that owns the type, as a set of at most one
FirstOwner(t) ==
    {Namespaces[i] : i \in {j \in DOMAIN Namespaces :
                               /\ EventTypeOf(Namespaces[j]) = t
                               /\ \A k \in 1..(j - 1) : EventTypeOf(Namespaces[k]) # t}}

\* the event branch: one task for the namespace that owns the type
HandleEvent(tasks, h) ==
    IF "type" \in DOMAIN h /\ h.type # "" /\ FirstOwner(h.type) # {}
    THEN Append(tasks, Task("_handle_event", CHOOSE ns \in FirstOwner(h.type) : TRUE))
    ELSE tasks

\* A handler that looks at the type of the header before its success.
HandleMessageTypeFirst(futs, tasks, h, data) ==
    IF "type" \in DOMAIN h
    THEN [futs |-> futs, tasks |-> HandleEvent(tasks, h), exc |-> "none"]
    ELSE IF "success" \in DOMAIN h
    THEN LET r == HandleIncomingMessage(futs, [success |-> h.success,
                                               cmdId |-> h.cmdId, data |-> data])
         IN [futs |-> r.futs, tasks |-> tasks, exc |-> r.exc]
    ELSE [futs |-> futs, tasks |-> tasks, exc |-> "none"]

\* A handler that indexes the table with the cmdId: KeyError when no waiter
\* is registered under it.
HandleMessageStrict(futs, tasks, h, data) ==
    IF "success" \in DOMAIN h /\ h.cmdId \notin DOMAIN futs
    THEN [futs |-> futs, tasks |-> tasks, exc |-> "KeyError"]
    ELSE IF "success" \in DOMAIN h
    THEN LET r == HandleIncomingMessage(futs, [success |-> h.success,
                                               cmdId |-> h.cmdId, data |-> data])
         IN [futs |-> r.futs, tasks |-> tasks, exc |-> r.exc]
    ELSE [futs |-> futs, tasks |-> HandleEvent(tasks, h), exc |-> "none"]

\* _handle_incoming_message, whole, on a frame [h, data]: the new table, the
\* new tracked tasks and the exception that leaves the handler.
HandleMessage(futs, tasks, h, data) ==
    IF "success" \in DOMAIN h
    THEN LET r == HandleIncomingMessage(futs, [success |-> h.success,
                                               cmdId |-> h.cmdId, data |-> data])
         IN [futs |-> r.futs, tasks |-> tasks, exc |-> r.exc]
    ELSE [futs |-> futs, tasks |-> HandleEvent(tasks, h), exc |-> "none"]

\* ---------------------------------------------------------- disconnect
\* A cancel loop that stops after the first future.
CancelFirstOnly(futs) ==
    [k \in DOMAIN futs |->
        IF futs[k].st = "pending" /\ k = OldestKey(futs) THEN Cancelled ELSE futs[k]]

\* `for future in self._result_futures.values(): future.cancel()`:
\* cancel() changes a pending future only.
CancelAll(futs) ==
    [k \in DOMAIN futs |-> IF futs[k].st = "pending" THEN Cancelled ELSE futs[k]]

\* ClientWebSocketResponse.close() called while another coroutine waits in
\* receive() on the socket first wakes that receiver and waits for it, with
\* `closed` still False; otherwise it sets `closed` at once.
ReceiverWaits(l, s) == l.pc = "receive" /\ l.sock = s

CloseStart(ss, s, l) ==
    [ss EXCEPT ![s] = IF ReceiverWaits(l, s) THEN "closing" ELSE "closed"]

\* disconnect() up to its await: stop, cancel every future, and either
\* start closing the socket (wait = TRUE) or clear _ws_client at once.
DisconnectBegin(futs, ws, ss, l) ==
    LET wait == ws # 0 /\ ss[ws] # "closed"
    IN [futs |-> CancelAll(futs),
        wait |-> wait,
        sock |-> IF wait THEN ws ELSE 0,
        ws |-> IF wait THEN ws ELSE 0,
        socks |-> IF wait THEN CloseStart(ss, ws, l) ELSE ss]

\* ======================================================= the subscribers
\* An event filter or object id filter of a listener: None, or a tuple.
NoFilter == [any |-> TRUE, of |-> <<>>]
Tuple(t) == [any |-> FALSE, of |-> t]

\* The filter arguments subscribe() is given: None, one value (an EventType,
\* a str) or a tuple of values.
FilterArgs(values) ==
    {[form |-> "none", v |-> <<>>]}
    \cup {[form |-> "one", v |-> <<x>>] : x \in values}
    \cup {[form |-> "tuple", v |-> <<x>>] : x \in values}

\* `if isinstance(event_filter, EventType): event_filter = (event_filter,)`
\* and the same for a str object_id_filter
Normalise(arg) == IF arg.form = "none" THEN NoFilter ELSE Tuple(arg.v)

\* `event_filter is None or event.event in event_filter`
Accepts(filter, x) == filter.any \/ \E i \in DOMAIN filter.of : filter.of[i] = x

\* A signal_event that skips a listener only when both filters reject.
WantsEither(l, e) == Accepts(l.event_filter, e.event) \/ Accepts(l.object_id_filter, e.object_id)

\* signal_event's two `continue` tests: the listener is called
Wants(l, e) == Accepts(l.event_filter, e.event) /\ Accepts(l.object_id_filter, e.object_id)

\* two listener tuples are equal (h is history: which subscribe() call made it)
SameListener(a, b) ==
    /\ a.cb = b.cb
    /\ a.event_filter = b.event_filter
    /\ a.object_id_filter = b.object_id_filter

\* signal_event: the callbacks scheduled for event e, in the order of subs
RECURSIVE SignalEvent(_, _, _)
SignalEvent(subs, i, e) ==
    IF i > Len(subs) THEN <<>>
    ELSE (IF Wants(subs[i], e)
          THEN <<[h |-> subs[i].h, cb |-> subs[i].cb, event |-> e]>>
          ELSE <<>>) \o SignalEvent(subs, i + 1, e)

\* signal_event for each event of a list, in order
RECURSIVE SignalAll(_, _, _)
SignalAll(subs, events, i) ==
    IF i > Len(events) THEN <<>>
    ELSE SignalEvent(subs, 1, events[i]) \o SignalAll(subs, events, i + 1)

\* ============================================================ the client
\* The household of the model: three group ids and two players, of which
\* PlayerId is the one this connection manages (_player_id).
GroupIds == {"A", "B", "C"}
PlayerId == "P"
OtherId == "Q"
Other(p) == IF p = PlayerId THEN OtherId ELSE PlayerId

Range(q) == {q[i] : i \in DOMAIN q}

\* `for key, value in data.items(): self._data[key] = value`
Merge(old, new) ==
    [k \in DOMAIN old \cup DOMAIN new |-> IF k \in DOMAIN new THEN new[k] ELSE old[k]]

\* A Group dict without its id, which never changes: coordinatorId and
\* playerIds, and playbackState, which is NotRequired.
GroupData(c, ms) == [coordinatorId |-> c, playerIds |-> ms]
Playing(d) == [k \in DOMAIN d \cup {"playbackState"} |->
                 IF k = "playbackState" THEN "PLAYBACK_STATE_PLAYING" ELSE d[k]]

PlayerDatas == {[name |-> "Kitchen"], [name |-> "Den"]}

\* The groups of one Groups message: every player is in at most one group,
\* and the coordinator of a group is the first of its playerIds.  The
\* managed player is alone in its group, or joins the other player's; the
\* message tells the playbackState of no group, or of group "A" when that
\* is the only group and the managed player's own.
GroupSets ==
    {{[id |-> g, data |-> GroupData(c, <<c>>)]} :
        g \in GroupIds, c \in {PlayerId, OtherId}}
    \cup {{[id |-> "A", data |-> Playing(GroupData(PlayerId, <<PlayerId>>))]}}
    \cup {{[id |-> g, data |-> GroupData(OtherId, <<OtherId, PlayerId>>)]} :
        g \in GroupIds}
    \cup {{[id |-> gg[1], data |-> GroupData(PlayerId, <<PlayerId>>)],
           [id |-> gg[2], data |-> GroupData(OtherId, <<OtherId>>)]} :
        gg \in {x \in GroupIds \X GroupIds : x[1] # x[2]}}

\* the groups are listed in the order of their ids
Rank(g) == CASE g = "A" -> 1 [] g = "B" -> 2 [] OTHER -> 3

ListOf(S) ==
    CHOOSE q \in [1..Cardinality(S) -> S] :
        /\ Range(q) = S
        /\ \A i, j \in DOMAIN q : i < j => Rank(q[i].id) < Rank(q[j].id)

\* A Groups message (the reply to getGroups, or a groups event): its groups
\* and its players, the managed player last.
GroupsEvents ==
    {[groups |-> ListOf(S),
      players |-> <<[id |-> OtherId, data |-> [name |-> "Bath"]],
                    [id |-> PlayerId, data |-> pd]>>] :
        S \in GroupSets, pd \in PlayerDatas}

Ids(gs) == {gs[i].id : i \in DOMAIN gs}
HasId(gs, g) == g \in Ids(gs)
IndexOf(gs, g) == CHOOSE i \in DOMAIN gs : gs[i].id = g

\* SonosEvent(event, object_id, ...)
Event(kind, oid) == [event |-> kind, object_id |-> oid]

\* _active_group is a reference to a SonosGroup object: the id of that
\* object, and whether it is the object _groups holds under that id.
Unset == [id |-> "unset", attached |-> FALSE]
NoPlayer == [made |-> FALSE, data |-> [name |-> "none"], active |-> Unset]
NoMove == [to |-> "none", moved |-> FALSE, n |-> 0]
NoMessage == [groups |-> <<>>, players |-> <<>>]

\* `group.coordinator_id == self.id or self.id in group.player_ids`
Matches(grp) ==
    grp.data.coordinatorId = PlayerId \/ PlayerId \in Range(grp.data.playerIds)

\* The scan of SonosPlayer.__init__ and update_data: the first group of
\* client.groups that matches, else _active_group stays what it was.
ActiveGroup(gs, cur) ==
    IF \E i \in DOMAIN gs : Matches(gs[i])
    THEN LET i == CHOOSE i \in DOMAIN gs :
                      Matches(gs[i]) /\ \A j \in 1..(i - 1) : ~Matches(gs[j])
         IN [id |-> gs[i].id, attached |-> TRUE]
    ELSE cur

\* A SonosGroup.update_data that signals whether or not the data changed.
GroupUpdateDataAlways(grp, data) ==
    [grp |-> [grp EXCEPT !.data = Merge(grp.data, data)],
     events |-> <<Event("GROUP_UPDATED", grp.id)>>]

\* SonosGroup.update_data: the group afterwards, and the events signalled
GroupUpdateData(grp, data) ==
    IF data = grp.data
    THEN [grp |-> grp, events |-> <<>>]
    ELSE [grp |-> [grp EXCEPT !.data = Merge(grp.data, data)],
          events |-> <<Event("GROUP_UPDATED", grp.id)>>]

\* The first loop of _handle_groups_event over groups_data["groups"], from
\* its i-th element: a group that _groups holds is updated, for any other
\* a _setup_group task is created.
RECURSIVE GroupsLoop(_, _, _, _, _)
GroupsLoop(list, i, gs, tasks, events) ==
    IF i > Len(list)
    THEN [groups |-> gs, tasks |-> tasks, events |-> events]
    ELSE IF HasId(gs, list[i].id)
    THEN LET k == IndexOf(gs, list[i].id)
             u == GroupUpdateData(gs[k], list[i].data)
         IN GroupsLoop(list, i + 1, [gs EXCEPT ![k] = u.grp], tasks, events \o u.events)
    ELSE GroupsLoop(list, i + 1, gs, Append(tasks, list[i]), events)

\* `removed_groups = set(self._groups.keys()) - {g["id"] for g in ...}`
RemovedGroups(gs, list) == Ids(gs) \ Ids(list)

\* the orders in which `for group_id in removed_groups` can go through a set
Orders(S) == {q \in [1..Cardinality(S) -> S] : Range(q) = S}

\* `self._groups.pop(group_id)` for every removed group
PopAll(gs, removed) == SelectSeq(gs, LAMBDA g : g.id \notin removed)

\* the object _active_group refers to is no longer the one _groups holds
Detach(active, gone) ==
    IF active.attached /\ active.id \in gone
    THEN [active EXCEPT !.attached = FALSE]
    ELSE active

\* SonosPlayer.update_data: the player afterwards, the events signalled and
\* the exception raised (self.group raises AttributeError while
\* _active_group was never assigned).
PlayerUpdateData(pl, gs, data) ==
    IF pl.active = Unset
    THEN [player |-> pl, events |-> <<>>, raised |-> "AttributeError"]
    ELSE LET act == ActiveGroup(gs, pl.active)
         IN IF data = pl.data /\ pl.active.id = act.id
            THEN [player |-> [pl EXCEPT !.active = act],
                  events |-> <<>>, raised |-> "none"]
            ELSE [player |-> [pl EXCEPT !.active = act, !.data = Merge(pl.data, data)],
                  events |-> <<Event("PLAYER_UPDATED", PlayerId)>>, raised |-> "none"]

\* The last loop of _handle_groups_event over groups_data["players"], from
\* its i-th element: only the managed player is updated.
RECURSIVE PlayersLoop(_, _, _, _, _)
PlayersLoop(list, i, pl, gs, events) ==
    IF i > Len(list)
    THEN [player |-> pl, events |-> events, raised |-> "none"]
    ELSE IF list[i].id # PlayerId
    THEN PlayersLoop(list, i + 1, pl, gs, events)
    ELSE LET u == PlayerUpdateData(pl, gs, list[i].data)
         IN IF u.raised # "none"
            THEN [player |-> u.player, events |-> events, raised |-> u.raised]
            ELSE PlayersLoop(list, i + 1, u.player, gs, events \o u.events)

\* History: the group that the groups of a message put the managed player in
PlayerGroup(list) ==
    IF \E i \in DOMAIN list : Matches(list[i])
    THEN list[CHOOSE i \in DOMAIN list : Matches(list[i])].id
    ELSE "none"

Count(events, kind) == Cardinality({i \in DOMAIN events : events[i].event = kind})
Min(a, b) == IF a < b THEN a ELSE b

\* History, kept over the groups events in which the attributes of the
\* managed player are the stored ones: the group the last event puts the
\* player in, whether the player came there from another group, and the
\* number of PLAYER_UPDATED signalled since it did (2 stands for more).
Track(mv, ev, pdata, events) ==
    LET to == PlayerGroup(ev.groups)
        pu == Count(events, "PLAYER_UPDATED")
    IN IF ev.players[2].data # pdata
       THEN [to |-> to, moved |-> FALSE, n |-> 0]
       ELSE IF to # mv.to
       THEN [to |-> to, moved |-> (mv.to # "none" /\ to # "none"), n |-> pu]
       ELSE [mv EXCEPT !.n = Min(2, mv.n + pu)]

\* History: the calls whose future is pending when disconnect() runs its
\* cancel loop, with where each of them is (sending or waiting).
MarkPending(futs) ==
    [c \in Callers |->
        IF /\ caller[c].pc \in {"sending", "waiting"}
           /\ futs[caller[c].cmdId].st = "pending"
        THEN caller[c].pc
        ELSE at_disconnect[c]]

\* ------------------------------------------------------------------- Init
Idle == [pc |-> "idle", cmdId |-> 0, outcome |-> [st |-> "none", val |-> NoData, from |-> 0]]

InitApi ==
    /\ ws_client = 0
    /\ socks = <<>>
    /\ loop = FALSE
    /\ stop_called = FALSE
    /\ result_futures = <<>>
    /\ next_cmd = 1
    /\ caller = [c \in Callers |-> Idle]
    /\ listener = [pc |-> "idle", err |-> "none", sock |-> 0]
    /\ disc = [pc |-> "idle", sock |-> 0]
    /\ conn = [pc |-> "idle", err |-> "none", stopped |-> FALSE]
    /\ at_disconnect = [c \in Callers |-> "no"]

InitClient ==
    /\ started = FALSE
    /\ groups = <<>>
    /\ setup_tasks = <<>>
    /\ player = NoPlayer
    /\ signalled = <<>>
    /\ move = NoMove
    /\ last = [op |-> "none", ev |-> NoMessage]

InitEvents ==
    /\ subscribers = <<>>
    /\ handles = <<>>
    /\ scheduled = <<>>

InitTasks ==
    /\ tracked_tasks = <<>>
    /\ received = NoFrame
    /\ logged = "none"

Init == InitApi /\ InitClient /\ InitEvents /\ InitTasks /\ raised = "none"

\* ---------------------------------------------------------------- connect
\* connect() up to `await ws_connect(...)`; InvalidState when a socket is held.
\* n bounds the sockets that a run opens.
ConnectBegin(n) ==
    /\ conn.pc = "idle"
    /\ Len(socks) < n
    /\ loop' = TRUE
    /\ conn' = IF ws_client # 0
               THEN [pc |-> "idle", err |-> "InvalidState", stopped |-> FALSE]
               ELSE [pc |-> "handshake", err |-> "none", stopped |-> FALSE]
    /\ UNCHANGED <<ws_client, socks, stop_called, result_futures, next_cmd,
                   caller, listener, disc, at_disconnect>>
    /\ UNCHANGED <<clientVars, eventVars, taskVars, raised>>

\* the handshake succeeds: `self._ws_client = <the new socket>`
ConnectOk(n) ==
    /\ conn.pc = "handshake"
    /\ Len(socks) < n
    /\ socks' = Append(socks, "open")
    /\ ws_client' = Len(socks) + 1
    /\ conn' = [pc |-> "idle", err |-> "none", stopped |-> FALSE]
    /\ UNCHANGED <<loop, stop_called, result_futures, next_cmd, caller,
                   listener, disc, at_disconnect>>
    /\ UNCHANGED <<clientVars, eventVars, taskVars, raised>>

\* the handshake fails: CannotConnect
ConnectFail ==
    /\ conn.pc = "handshake"
    /\ conn' = [pc |-> "idle", err |-> "CannotConnect", stopped |-> FALSE]
    /\ UNCHANGED <<ws_client, socks, loop, stop_called, result_futures,
                   next_cmd, caller, listener, disc, at_disconnect>>
    /\ UNCHANGED <<clientVars, eventVars, taskVars, raised>>

\* ------------------------------------------------------------- disconnect
\* history: a disconnect() of the application returns while this connect()
\* waits in ws_connect
Returned(c) == IF c.pc = "handshake" THEN [c EXCEPT !.stopped = TRUE] ELSE c

DisconnectCall ==
    /\ disc.pc = "idle"
    /\ LET d == DisconnectBegin(result_futures, ws_client, socks, listener)
       IN /\ stop_called' = TRUE
          /\ result_futures' = d.futs
          /\ ws_client' = d.ws
          /\ socks' = d.socks
          /\ disc' = IF d.wait THEN [pc |-> "closing", sock |-> d.sock]
                     ELSE [pc |-> "idle", sock |-> 0]
          /\ conn' = IF d.wait THEN conn ELSE Returned(conn)
    /\ at_disconnect' = MarkPending(result_futures)
    /\ UNCHANGED <<loop, next_cmd, caller, listener>>
    /\ UNCHANGED <<clientVars, eventVars, taskVars, raised>>

\* A disconnect that returns after close() and keeps _ws_client.
DisconnectEndKeepsClient ==
    /\ disc.pc = "closing"
    /\ ~ReceiverWaits(listener, disc.sock)
    /\ socks' = [socks EXCEPT ![disc.sock] = "closed"]
    /\ disc' = [pc |-> "idle", sock |-> 0]
    /\ conn' = Returned(conn)
    /\ UNCHANGED <<ws_client, loop, stop_called, result_futures, next_cmd,
                   caller, listener, at_disconnect>>
    /\ UNCHANGED <<clientVars, eventVars, taskVars, raised>>

\* `await self._ws_client.close()` returns; `self._ws_client = None`
DisconnectEnd ==
    /\ disc.pc = "closing"
    /\ ~ReceiverWaits(listener, disc.sock)
    /\ socks' = [socks EXCEPT ![disc.sock] = "closed"]
    /\ ws_client' = 0
    /\ disc' = [pc |-> "idle", sock |-> 0]
    /\ conn' = Returned(conn)
    /\ UNCHANGED <<loop, stop_called, result_futures, next_cmd, caller,
                   listener, at_disconnect>>
    /\ UNCHANGED <<clientVars, eventVars, taskVars, raised>>

\* ----------------------------------------------------------- send_command
\* A send_command that hands the frame to the transport first and registers
\* its future when the send has returned.
SendCommandRegistersLate(c) ==
    /\ caller[c].pc = "idle"
    /\ c = next_cmd
    /\ next_cmd' = next_cmd + 1
    /\ IF ~Connected(ws_client, socks) \/ ~loop
       THEN caller' = [caller EXCEPT ![c] =
                    [pc |-> "done", cmdId |-> 0,
                     outcome |-> [st |-> "InvalidState", val |-> NoData, from |-> 0]]]
       ELSE caller' = [caller EXCEPT ![c] =
                    [pc |-> "sending", cmdId |-> c, outcome |-> Idle.outcome]]
    /\ UNCHANGED <<result_futures, ws_client, socks, loop, stop_called, listener,
                   disc, conn, at_disconnect>>
    /\ UNCHANGED <<clientVars, eventVars, taskVars, raised>>

\* send_command up to `await self._ws_client.send_bytes(...)`: InvalidState
\* when not connected, else a fresh cmdId and its future in the table.
\* Calls are numbered in the order they are made, and the c-th call draws
\* cmdId c: uuid4 draws a value that was never drawn before.
SendCommand(c) ==
    /\ caller[c].pc = "idle"
    /\ c = next_cmd
    /\ next_cmd' = next_cmd + 1
    /\ IF ~Connected(ws_client, socks) \/ ~loop
       THEN /\ caller' = [caller EXCEPT ![c] =
                    [pc |-> "done", cmdId |-> 0,
                     outcome |-> [st |-> "InvalidState", val |-> NoData, from |-> 0]]]
            /\ UNCHANGED result_futures
       ELSE /\ result_futures' =
                    [k \in DOMAIN result_futures \cup {c} |->
                        IF k = c THEN Pending ELSE result_futures[k]]
            /\ caller' = [caller EXCEPT ![c] =
                    [pc |-> "sending", cmdId |-> c, outcome |-> Idle.outcome]]
    /\ UNCHANGED <<ws_client, socks, loop, stop_called, listener, disc, conn, at_disconnect>>
    /\ UNCHANGED <<clientVars, eventVars, taskVars, raised>>

\* `return await future` and the finally: the caller gets what the future
\* holds and pops its cmdId.
Resumed(c, futs) ==
    [pc |-> "done", cmdId |-> caller[c].cmdId, outcome |-> futs[caller[c].cmdId]]

Pop(futs, k) == [j \in DOMAIN futs \ {k} |-> futs[j]]

\* send_bytes returns.  A future that is already done does not suspend the
\* caller: it goes on to the finally at once.
SendOk(c) ==
    /\ caller[c].pc = "sending"
    /\ IF result_futures[caller[c].cmdId].st = "pending"
       THEN /\ caller' = [caller EXCEPT ![c].pc = "waiting"]
            /\ UNCHANGED result_futures
       ELSE /\ caller' = [caller EXCEPT ![c] = Resumed(c, result_futures)]
            /\ result_futures' = Pop(result_futures, caller[c].cmdId)
    /\ UNCHANGED <<ws_client, socks, loop, stop_called, next_cmd, listener,
                   disc, conn, at_disconnect>>
    /\ UNCHANGED <<clientVars, eventVars, taskVars, raised>>

\* `await self._send_message(...)` raises (the transport fails): the await
\* is outside the try, so the finally that pops the cmdId does not run.
SendRaises(c) ==
    /\ caller[c].pc = "sending"
    /\ caller' = [caller EXCEPT ![c] =
              [pc |-> "done", cmdId |-> caller[c].cmdId,
               outcome |-> [st |-> "ConnectionResetError", val |-> NoData, from |-> 0]]]
    /\ UNCHANGED <<ws_client, socks, loop, stop_called, result_futures,
                   next_cmd, listener, disc, conn, at_disconnect>>
    /\ UNCHANGED <<clientVars, eventVars, taskVars, raised>>

\* the future is done and the suspended caller runs again
Resume(c) ==
    /\ caller[c].pc = "waiting"
    /\ result_futures[caller[c].cmdId].st # "pending"
    /\ caller' = [caller EXCEPT ![c] = Resumed(c, result_futures)]
    /\ result_futures' = Pop(result_futures, caller[c].cmdId)
    /\ UNCHANGED <<ws_client, socks, loop, stop_called, next_cmd, listener,
                   disc, conn, at_disconnect>>
    /\ UNCHANGED <<clientVars, eventVars, taskVars, raised>>

\* The caller's task is cancelled.  While it awaits the future, Task.cancel()
\* cancels that future and the caller resumes later, through the finally.
\* While it awaits the send, CancelledError is raised at that await, which is
\* outside the try.
CancelCaller(c) ==
    /\ \/ /\ caller[c].pc = "waiting"
          /\ result_futures[caller[c].cmdId].st = "pending"
          /\ result_futures' = [result_futures EXCEPT ![caller[c].cmdId] = Cancelled]
          /\ UNCHANGED caller
       \/ /\ caller[c].pc = "sending"
          /\ caller' = [caller EXCEPT ![c] =
                [pc |-> "done", cmdId |-> caller[c].cmdId, outcome |-> Cancelled]]
          /\ UNCHANGED result_futures
    /\ UNCHANGED <<ws_client, socks, loop, stop_called, next_cmd,
                   listener, disc, conn, at_disconnect>>
    /\ UNCHANGED <<clientVars, eventVars, taskVars, raised>>

\* -------------------------------------------------------- start_listening
\* A start_listening without the finally: it returns or raises at once.
ListenerFinallyNoDisconnect(futs, ss, e) ==
    /\ listener' = [pc |-> "done", err |-> e, sock |-> 0]
    /\ result_futures' = futs
    /\ socks' = ss
    /\ UNCHANGED <<ws_client, stop_called, at_disconnect>>

\* The finally of start_listening: disconnect() with exception e on its way
\* out ("none": the loop ended or ConnectionClosed was caught).
ListenerFinally(futs, ss, e) ==
    LET l0 == [pc |-> "finally", err |-> e, sock |-> 0]
        d == DisconnectBegin(futs, ws_client, ss, l0)
    IN /\ stop_called' = TRUE
       /\ result_futures' = d.futs
       /\ ws_client' = d.ws
       /\ socks' = d.socks
       /\ listener' = IF d.wait THEN [pc |-> "closing", err |-> e, sock |-> d.sock]
                      ELSE [pc |-> "done", err |-> e, sock |-> 0]
       /\ at_disconnect' = MarkPending(futs)

\* start_listening() on a connected instance: straight to the loop
StartListening ==
    /\ listener.pc \in {"idle", "done"}
    /\ Connected(ws_client, socks)
    /\ IF stop_called
       THEN ListenerFinally(result_futures, socks, "none")
       ELSE /\ listener' = [pc |-> "receive", err |-> "none", sock |-> ws_client]
            /\ UNCHANGED <<ws_client, socks, stop_called, result_futures, at_disconnect>>
    /\ UNCHANGED <<loop, next_cmd, caller, disc, conn>>
    /\ UNCHANGED <<clientVars, eventVars, taskVars, raised>>

\* start_listening() on an instance that is not connected: connect() first.
\* connect() is outside the try: its InvalidState leaves without disconnect().
StartListeningConnect(n) ==
    /\ listener.pc \in {"idle", "done"}
    /\ ~Connected(ws_client, socks)
    /\ Len(socks) < n
    /\ loop' = TRUE
    /\ listener' = IF ws_client # 0
                   THEN [pc |-> "done", err |-> "InvalidState", sock |-> 0]
                   ELSE [pc |-> "handshake", err |-> "none", sock |-> 0]
    /\ UNCHANGED <<ws_client, socks, stop_called, result_futures, next_cmd,
                   caller, disc, conn, at_disconnect>>
    /\ UNCHANGED <<clientVars, eventVars, taskVars, raised>>

\* the listener's handshake succeeds; then `while not self._stop_called`
ListenerConnectOk(n) ==
    /\ listener.pc = "handshake"
    /\ Len(socks) < n
    /\ LET ss == Append(socks, "open")
           s == Len(socks) + 1
       IN IF stop_called
          THEN LET l0 == [pc |-> "finally", err |-> "none", sock |-> 0]
                   d == DisconnectBegin(result_futures, s, ss, l0)
               IN /\ result_futures' = d.futs
                  /\ ws_client' = d.ws
                  /\ socks' = d.socks
                  /\ listener' = [pc |-> "closing", err |-> "none", sock |-> d.sock]
                  /\ at_disconnect' = MarkPending(result_futures)
                  /\ UNCHANGED stop_called
          ELSE /\ socks' = ss
               /\ ws_client' = s
               /\ listener' = [pc |-> "receive", err |-> "none", sock |-> s]
               /\ UNCHANGED <<stop_called, result_futures, at_disconnect>>
    /\ UNCHANGED <<loop, next_cmd, caller, disc, conn>>
    /\ UNCHANGED <<clientVars, eventVars, taskVars, raised>>

\* the listener's handshake fails: CannotConnect, raised outside the try
ListenerConnectFail ==
    /\ listener.pc = "handshake"
    /\ listener' = [pc |-> "done", err |-> "CannotConnect", sock |-> 0]
    /\ UNCHANGED <<ws_client, socks, loop, stop_called, result_futures,
                   next_cmd, caller, disc, conn, at_disconnect>>
    /\ UNCHANGED <<clientVars, eventVars, taskVars, raised>>

\* receive() returns a reply; _handle_incoming_message; then either the next
\* receive() or, on an exception or _stop_called, the finally.
ReceiveReply(m) ==
    /\ listener.pc = "receive"
    /\ socks[listener.sock] # "closed"
    /\ LET r == HandleIncomingMessage(result_futures, m)
       IN IF r.exc = "none" /\ ~stop_called
          THEN /\ result_futures' = r.futs
               /\ listener' = [listener EXCEPT !.sock = ws_client]
               /\ UNCHANGED <<ws_client, socks, stop_called, at_disconnect>>
          ELSE ListenerFinally(r.futs, socks, r.exc)
    /\ UNCHANGED <<loop, next_cmd, caller, disc, conn>>
    /\ UNCHANGED <<clientVars, eventVars, taskVars, raised>>

\* receive() returns CLOSE, CLOSING or CLOSED (the peer closed, or the socket
\* is being closed here): ConnectionClosed, caught; then the finally.
\* receive() returns ERROR: ConnectionFailed, through the finally.
\* aiohttp has closed the socket in both cases.
ReceiveClosed(m) ==
    /\ listener.pc = "receive"
    /\ m = ErrorMsg => socks[listener.sock] = "open"
    /\ ListenerFinally(result_futures,
                       [socks EXCEPT ![listener.sock] = "closed"],
                       IF m = ErrorMsg THEN "ConnectionFailed" ELSE "none")
    /\ UNCHANGED <<loop, next_cmd, caller, disc, conn>>
    /\ UNCHANGED <<clientVars, eventVars, taskVars, raised>>

\* the listener's `await self._ws_client.close()` returns
ListenerDisconnectEnd ==
    /\ listener.pc = "closing"
    /\ socks' = [socks EXCEPT ![listener.sock] = "closed"]
    /\ ws_client' = 0
    /\ listener' = [pc |-> "done", err |-> listener.err, sock |-> 0]
    /\ UNCHANGED <<loop, stop_called, result_futures, next_cmd, caller,
                   disc, conn, at_disconnect>>
    /\ UNCHANGED <<clientVars, eventVars, taskVars, raised>>

\* ------------------------------------- text frames, tasks, no-wait sends
\* receive() returns a TEXT frame [header, body]; _handle_incoming_message;
\* then the next receive() or, on an exception or _stop_called, the finally.
ReceivePush(m) ==
    /\ listener.pc = "receive"
    /\ socks[listener.sock] # "closed"
    /\ \E r \in {HandleMessage(result_futures, tracked_tasks, m.header, m.data)} :
          /\ Len(r.tasks) <= MaxTracked
          /\ tracked_tasks' = r.tasks
          /\ IF r.exc = "none" /\ ~stop_called
             THEN /\ result_futures' = r.futs
                  /\ listener' = [listener EXCEPT !.sock = ws_client]
                  /\ UNCHANGED <<ws_client, socks, stop_called, at_disconnect>>
             ELSE ListenerFinally(r.futs, socks, r.exc)
    /\ received' = m
    /\ UNCHANGED logged
    /\ UNCHANGED <<loop, next_cmd, caller, disc, conn>>
    /\ UNCHANGED <<clientVars, eventVars, raised>>

\* receive() returns a frame that is not TEXT or not JSON: InvalidMessage
\* leaves receive_message_or_raise; or JSON that is not a pair: ValueError
\* leaves `msg, msg_data = raw`.  start_listening catches ConnectionClosed
\* only, so the exception goes through the finally.
ReceiveMalformed(m) ==
    /\ listener.pc = "receive"
    /\ socks[listener.sock] # "closed"
    /\ ListenerFinally(result_futures, socks,
                       IF m = NotPair THEN "ValueError" ELSE "InvalidMessage")
    /\ received' = m
    /\ UNCHANGED logged
    /\ UNCHANGED <<loop, next_cmd, caller, disc, conn, tracked_tasks>>
    /\ UNCHANGED <<clientVars, eventVars, raised>>

\* A no-wait send without the test of `connected`.
SendCommandNoWaitUnchecked ==
    /\ Len(tracked_tasks) < MaxTracked
    /\ raised' = "none"
    /\ tracked_tasks' = Append(tracked_tasks, Task("_send_message", Message(NoWaitId)))
    /\ UNCHANGED <<apiVars, clientVars, eventVars, received, logged>>

\* A no-wait send that registers a future under its cmdId like send_command.
SendCommandNoWaitRegisters ==
    /\ Len(tracked_tasks) < MaxTracked
    /\ IF ~Connected(ws_client, socks)
       THEN /\ raised' = "InvalidState"
            /\ UNCHANGED <<tracked_tasks, result_futures>>
       ELSE /\ raised' = "none"
            /\ tracked_tasks' = Append(tracked_tasks, Task("_send_message", Message(NoWaitId)))
            /\ result_futures' = [k \in DOMAIN result_futures \cup {NoWaitId} |->
                                    IF k = NoWaitId THEN Pending ELSE result_futures[k]]
    /\ UNCHANGED <<ws_client, socks, loop, stop_called, next_cmd, caller,
                   listener, disc, conn, at_disconnect>>
    /\ UNCHANGED <<clientVars, eventVars, received, logged>>

\* send_command_no_wait: InvalidState when not connected, else a task that
\* runs _send_message on the frame is created and tracked.
SendCommandNoWait ==
    /\ Len(tracked_tasks) < MaxTracked
    /\ IF ~Connected(ws_client, socks)
       THEN /\ raised' = "InvalidState"
            /\ UNCHANGED tracked_tasks
       ELSE /\ raised' = "none"
            /\ tracked_tasks' = Append(tracked_tasks, Task("_send_message", Message(NoWaitId)))
    /\ UNCHANGED <<apiVars, clientVars, eventVars, received, logged>>

\* A tracked task runs for the first time.  _send_message raises
\* NotConnected when not connected, else it awaits send_bytes; a namespace's
\* _handle_event returns or raises.
TaskRun(i) ==
    /\ i \in DOMAIN tracked_tasks
    /\ tracked_tasks[i].st = "created"
    /\ \E st \in IF tracked_tasks[i].target = "_send_message"
                 THEN (IF Connected(ws_client, socks) THEN {"sending"} ELSE {"exception"})
                 ELSE {"done", "exception"} :
          tracked_tasks' = [tracked_tasks EXCEPT ![i].st = st]
    /\ UNCHANGED <<apiVars, clientVars, eventVars, received, logged, raised>>

\* send_bytes returns or raises: the task of a no-wait send ends
TaskSent(i) ==
    /\ i \in DOMAIN tracked_tasks
    /\ tracked_tasks[i].st = "sending"
    /\ \E st \in {"done", "exception"} :
          tracked_tasks' = [tracked_tasks EXCEPT ![i].st = st]
    /\ UNCHANGED <<apiVars, clientVars, eventVars, received, logged, raised>>

\* tasks without the i-th
Without(tasks, i) ==
    [j \in 1..(Len(tasks) - 1) |-> IF j < i THEN tasks[j] ELSE tasks[j + 1]]

\* A done callback that pops the task and logs nothing.
TaskDoneCallbackSilent(i) ==
    /\ i \in DOMAIN tracked_tasks
    /\ tracked_tasks[i].st \in {"done", "exception"}
    /\ tracked_tasks' = Without(tracked_tasks, i)
    /\ logged' = "none"
    /\ UNCHANGED <<apiVars, clientVars, eventVars, received, raised>>

\* task_done_callback of a task that has ended: `self._tracked_tasks.pop(...)`
\* and a warning when the task holds an exception (no task is ever cancelled)
TaskDoneCallback(i) ==
    /\ i \in DOMAIN tracked_tasks
    /\ tracked_tasks[i].st \in {"done", "exception"}
    /\ tracked_tasks' = Without(tracked_tasks, i)
    /\ logged' = (IF tracked_tasks[i].st = "exception" THEN "warning" ELSE "none")
    /\ UNCHANGED <<apiVars, clientVars, eventVars, received, raised>>

NextTasks ==
    \/ ConnectBegin(MaxSocks)
    \/ ConnectOk(MaxSocks)
    \/ DisconnectCall
    \/ DisconnectEnd
    \/ SendCommand(1)
    \/ SendOk(1)
    \/ Resume(1)
    \/ CancelCaller(1)
    \/ StartListening
    \/ \E m \in Frames : ReceivePush(m)
    \/ \E m \in Malformed : ReceiveMalformed(m)
    \/ \E m \in {CloseMsg, ErrorMsg} : ReceiveClosed(m)
    \/ ListenerDisconnectEnd
    \/ SendCommandNoWait
    \/ \E i \in 1..MaxTracked : TaskRun(i)
    \/ \E i \in 1..MaxTracked : TaskSent(i)

SpecTasks == Init /\ [][NextTasks]_vars

\* the tasks of create_task from their creation to their done callback, next
\* to a listening connection and one send_command
NextSupervise ==
    \/ ConnectBegin(MaxSocks)
    \/ ConnectOk(MaxSocks)
    \/ SendCommand(1)
    \/ SendOk(1)
    \/ Resume(1)
    \/ StartListening
    \/ \E m \in Frames : ReceivePush(m)
    \/ \E m \in {CloseMsg, ErrorMsg} : ReceiveClosed(m)
    \/ ListenerDisconnectEnd
    \/ SendCommandNoWait
    \/ \E i \in 1..MaxTracked : TaskRun(i)
    \/ \E i \in 1..MaxTracked : TaskSent(i)
    \/ \E i \in 1..MaxTracked : TaskDoneCallback(i)

SpecSupervise == Init /\ [][NextSupervise]_vars

NextConn ==
    \/ ConnectBegin(MaxConns)
    \/ ConnectOk(MaxConns)
    \/ ConnectFail
    \/ DisconnectCall
    \/ DisconnectEnd
    \/ SendCommand(1)
    \/ SendOk(1)
    \/ Resume(1)
    \/ StartListening
    \/ StartListeningConnect(MaxConns)
    \/ ListenerConnectOk(MaxConns)
    \/ ListenerConnectFail
    \/ \E m \in Replies : ReceiveReply(m)
    \/ \E m \in {CloseMsg, ErrorMsg} : ReceiveClosed(m)
    \/ ListenerDisconnectEnd

SpecConn == Init /\ [][NextConn]_vars

\* ------------------------------------------------- the client's actions
\* SonosApiClient.start_listening up to `await listen_task`: every group of
\* the getGroups reply is set up, in order, then the player is made, with
\* the scan of SonosPlayer.__init__, and the groups events are subscribed to.
FetchInitial(ev) ==
    /\ ~started
    /\ started' = TRUE
    /\ groups' = ev.groups
    /\ setup_tasks' = <<>>
    /\ player' = [made |-> TRUE,
                  data |-> ev.players[CHOOSE i \in DOMAIN ev.players :
                                         ev.players[i].id = PlayerId].data,
                  active |-> ActiveGroup(ev.groups, Unset)]
    /\ LET events == [i \in DOMAIN ev.groups |-> Event("GROUP_ADDED", ev.groups[i].id)]
       IN /\ signalled' = events
          /\ scheduled' = scheduled \o SignalAll(subscribers, events, 1)
    /\ move' = [NoMove EXCEPT !.to = PlayerGroup(ev.groups)]
    /\ last' = [op |-> "start_listening", ev |-> ev]
    /\ raised' = "none"
    /\ UNCHANGED <<apiVars, taskVars, subscribers, handles>>

\* _handle_groups_event, whole: the groups loop, the removed groups (popped
\* in the order a set gives them), the players loop.
HandleGroupsEvent(ev, n) ==
    /\ started
    /\ \E g \in {GroupsLoop(ev.groups, 1, groups, setup_tasks, <<>>)} :
       \E removed \in {RemovedGroups(g.groups, ev.groups)} :
       \E order \in Orders(removed) :
       \E p \in {PlayersLoop(ev.players, 1,
                             [player EXCEPT !.active = Detach(player.active, removed)],
                             PopAll(g.groups, removed), <<>>)} :
       \E events \in {g.events
                       \o [i \in DOMAIN order |-> Event("GROUP_REMOVED", order[i])]
                       \o p.events} :
          /\ Len(g.tasks) <= n
          /\ groups' = PopAll(g.groups, removed)
          /\ setup_tasks' = g.tasks
          /\ player' = p.player
          /\ raised' = p.raised
          /\ signalled' = events
          /\ scheduled' = scheduled \o SignalAll(subscribers, events, 1)
          /\ move' = Track(move, ev, player.data, events)
    /\ last' = [op |-> "_handle_groups_event", ev |-> ev]
    /\ UNCHANGED <<apiVars, taskVars, started, subscribers, handles>>

\* The oldest _setup_group task runs: a new SonosGroup is put in _groups
\* under its id, in place of the object that was there if there was one,
\* and GROUP_ADDED is signalled.
RunSetupGroup ==
    /\ setup_tasks # <<>>
    /\ LET t == Head(setup_tasks)
           events == <<Event("GROUP_ADDED", t.id)>>
       IN /\ groups' = IF HasId(groups, t.id)
                       THEN [groups EXCEPT ![IndexOf(groups, t.id)] = t]
                       ELSE Append(groups, t)
          /\ player' = [player EXCEPT !.active =
                            Detach(player.active, Ids(groups) \cap {t.id})]
          /\ signalled' = events
          /\ scheduled' = scheduled \o SignalAll(subscribers, events, 1)
    /\ setup_tasks' = Tail(setup_tasks)
    /\ raised' = "none"
    /\ last' = [op |-> "_setup_group", ev |-> NoMessage]
    /\ UNCHANGED <<apiVars, taskVars, started, move, subscribers, handles>>

NextClient ==
    \/ \E ev \in GroupsEvents : FetchInitial(ev)
    \/ \E ev \in GroupsEvents : HandleGroupsEvent(ev, MaxTasks)
    \/ RunSetupGroup

SpecClient == Init /\ [][NextClient]_vars

\* the client with up to MaxDeferred _setup_group tasks waiting at a time
NextDeferred ==
    \/ \E ev \in GroupsEvents : FetchInitial(ev)
    \/ \E ev \in GroupsEvents : HandleGroupsEvent(ev, MaxDeferred)
    \/ RunSetupGroup

SpecDeferred == Init /\ [][NextDeferred]_vars

\* -------------------------------------------- the subscribers' actions
Callbacks == {"cb1", "cb2"}

\* the events of the model: two kinds and two object ids
Events ==
    {Event(k, o) : k \in {"GROUP_ADDED", "PLAYER_UPDATED"}, o \in {"C", PlayerId}}

\* subscribe(cb_func, event_filter, object_id_filter): the listener tuple is
\* appended and a closure over it is returned.
Subscribe(cb, ef, idf) ==
    /\ Len(handles) < MaxSubs
    /\ LET tuple == [h |-> Len(handles) + 1, cb |-> cb,
                     event_filter |-> Normalise(ef),
                     object_id_filter |-> Normalise(idf)]
       IN /\ subscribers' = Append(subscribers, tuple)
          /\ handles' = Append(handles, [listener |-> tuple, called |-> FALSE,
                                         returned |-> FALSE])
    /\ raised' = "none"
    /\ UNCHANGED <<apiVars, taskVars, clientVars, scheduled>>

\* list.remove(x): without the first element equal to x
RECURSIVE RemoveFirst(_, _)
RemoveFirst(subs, l) ==
    IF subs = <<>> THEN <<>>
    ELSE IF SameListener(Head(subs), l) THEN Tail(subs)
    ELSE <<Head(subs)>> \o RemoveFirst(Tail(subs), l)

\* The closure remove_listener that the h-th subscribe() returned is called:
\* `self._subscribers.remove(listener)`, which raises ValueError when no
\* element of the list equals the listener.
Unsubscribe(h) ==
    /\ h \in DOMAIN handles
    /\ IF \E i \in DOMAIN subscribers : SameListener(subscribers[i], handles[h].listener)
       THEN /\ subscribers' = RemoveFirst(subscribers, handles[h].listener)
            /\ handles' = [handles EXCEPT ![h].called = TRUE, ![h].returned = TRUE]
            /\ raised' = "none"
       ELSE /\ raised' = "ValueError"
            /\ handles' = [handles EXCEPT ![h].called = TRUE]
            /\ UNCHANGED subscribers
    /\ UNCHANGED <<apiVars, taskVars, clientVars, scheduled>>

\* signal_event(event), for an event of any kind and object
Signal(e) ==
    /\ Len(scheduled) < MaxScheduled
    /\ scheduled' = scheduled \o SignalEvent(subscribers, 1, e)
    /\ raised' = "none"
    /\ UNCHANGED <<apiVars, taskVars, clientVars, subscribers, handles>>

\* the event loop runs the oldest scheduled callback
RunCallback ==
    /\ scheduled # <<>>
    /\ scheduled' = Tail(scheduled)
    /\ raised' = "none"
    /\ UNCHANGED <<apiVars, taskVars, clientVars, subscribers, handles>>

NextEvents ==
    \/ \E cb \in Callbacks, ef \in FilterArgs({"GROUP_ADDED"}), idf \in FilterArgs({"C"}) :
          Subscribe(cb, ef, idf)
    \/ \E h \in 1..MaxSubs : Unsubscribe(h)
    \/ \E e \in Events : Signal(e)
    \/ RunCallback

SpecEvents == Init /\ [][NextEvents]_vars

\* ------------------------------------------------------------------- Next
Next ==
    \/ ConnectBegin(MaxSocks)
    \/ ConnectOk(MaxSocks)
    \/ ConnectFail
    \/ DisconnectCall
    \/ DisconnectEnd
    \/ \E c \in Callers : SendCommand(c)
    \/ \E c \in Callers : SendOk(c)
    \/ \E c \in Callers : SendRaises(c)
    \/ \E c \in Callers : Resume(c)
    \/ \E c \in Callers : CancelCaller(c)
    \/ StartListening
    \/ StartListeningConnect(MaxSocks)
    \/ ListenerConnectOk(MaxSocks)
    \/ ListenerConnectFail
    \/ \E m \in Replies : ReceiveReply(m)
    \/ \E m \in {CloseMsg, ErrorMsg} : ReceiveClosed(m)
    \/ ListenerDisconnectEnd

Spec == Init /\ [][Next]_vars

\* ======================================================== the claims, Spec
Registered(c) == caller[c].pc \in {"sending", "waiting"}
Done(c) == caller[c].pc = "done"
Resolved(f) == f.st \in {"result", "exception"}

\* C1: a reply with cmdId k resolves only the waiter registered under k, and
\* a caller gets the body (or the FailedCommand) of a reply that carried its
\* own cmdId, never that of a reply carrying another cmdId.
C1_ReplyReachesOwnWaiter ==
    /\ \A k \in DOMAIN result_futures :
          Resolved(result_futures[k]) => result_futures[k].from = k
    /\ \A c \in Callers :
          Done(c) /\ Resolved(caller[c].outcome) =>
              caller[c].outcome.from = caller[c].cmdId

\* two commands are pending together and the reply to the second one comes
\* first: the second caller has its result while the first still waits
C1_Witness ==
    /\ caller[1].pc = "waiting" /\ result_futures[1].st = "pending"
    /\ Done(2) /\ caller[2].outcome.st = "result"

\* C2 as stated: every call that is pending (registered, not yet replied)
\* when disconnect() is called ends with its caller observing cancellation.
C2_AllObserveCancellation ==
    \A c \in Callers :
        at_disconnect[c] # "no" /\ Done(c) => caller[c].outcome.st = "cancelled"

\* C2 amended: every waiter that is pending when disconnect() is called is
\* cancelled and never holds a reply value afterwards; its caller observes
\* cancellation, or, when its transmission was still in flight and fails,
\* the failure of the transmission, and never a value.
C2_PendingAreCancelled ==
    \A c \in Callers :
        at_disconnect[c] # "no" =>
            /\ caller[c].cmdId \in DOMAIN result_futures =>
                  result_futures[caller[c].cmdId].st = "cancelled"
            /\ Done(c) =>
                  \/ caller[c].outcome.st = "cancelled"
                  \/ /\ at_disconnect[c] = "sending"
                     /\ caller[c].outcome.st = "ConnectionResetError"

\* disconnect() found two calls pending, one awaiting its reply and one
\* still sending; both callers have ended, with cancellation
C2_Witness ==
    /\ at_disconnect[1] = "waiting" /\ at_disconnect[2] = "sending"
    /\ Done(1) /\ caller[1].outcome.st = "cancelled"
    /\ Done(2) /\ caller[2].outcome.st = "cancelled"

\* C3: once a send_command call has ended, by any path, its cmdId is no
\* longer a key of the pending table.
C3_RemovedWhenTerminated ==
    \A c \in Callers :
        Done(c) /\ caller[c].cmdId # 0 => caller[c].cmdId \notin DOMAIN result_futures

\* C4: a reply with success = false to a pending command resolves that
\* command's waiter with FailedCommand(errorCode, reason), whatever error body
\* the peer sends (reason is optional), changes no other waiter, and the
\* receive loop goes on.
C4_FailedReplyRejectsWaiter ==
    [][\A m \in Replies :
          ( /\ ~m.success
            /\ m.cmdId \in DOMAIN result_futures
            /\ result_futures[m.cmdId].st = "pending"
            /\ ~stop_called
            /\ ReceiveReply(m) )
          => /\ m.cmdId \in DOMAIN result_futures'
             /\ result_futures'[m.cmdId].st = "exception"
             /\ result_futures'[m.cmdId].val.errorCode = m.data.errorCode
             /\ \A k \in DOMAIN result_futures \ {m.cmdId} :
                   result_futures'[k] = result_futures[k]
             /\ listener'.pc = "receive"]_vars

\* ================================================ the claims, SpecClient
\* how many times the event of this kind for this object is in the list
Times(events, kind, oid) ==
    Cardinality({i \in DOMAIN events : events[i] = Event(kind, oid)})

\* the data _groups holds under an id
Stored(gs, g) == gs[IndexOf(gs, g)].data
Incoming(ev, g) == ev.groups[IndexOf(ev.groups, g)].data

\* C5: handling one groups update with incoming ids I against a snapshot
\* with ids S signals exactly one GROUP_REMOVED for each id of S minus I,
\* exactly one GROUP_UPDATED for each id of both whose incoming attributes
\* differ from the stored ones and none for an id of both whose attributes
\* are equal, and creates exactly one _setup_group task for each id of I
\* minus S and for no other id; a _setup_group task, when it runs, signals
\* exactly one event, the GROUP_ADDED of its group.
C5_GroupEventsAreTheDiff ==
    [][/\ last'.op = "_handle_groups_event" =>
            LET ev == last'.ev
                S == Ids(groups)
                I == Ids(ev.groups)
                created == SubSeq(setup_tasks', Len(setup_tasks) + 1, Len(setup_tasks'))
            IN \A g \in GroupIds :
                /\ Times(signalled', "GROUP_REMOVED", g) =
                        (IF g \in S \ I THEN 1 ELSE 0)
                /\ Times(signalled', "GROUP_UPDATED", g) =
                        (IF g \in S \cap I /\ Incoming(ev, g) # Stored(groups, g)
                         THEN 1 ELSE 0)
                /\ Cardinality({i \in DOMAIN created : created[i].id = g}) =
                        (IF g \in I \ S THEN 1 ELSE 0)
                /\ Times(signalled', "GROUP_ADDED", g) = 0
       /\ last'.op = "_setup_group" =>
            signalled' = <<Event("GROUP_ADDED", Head(setup_tasks).id)>>
      ]_vars

\* snapshot {A, B}, incoming {A unchanged, C}: GROUP_REMOVED(B) is signalled
\* and the task that will signal GROUP_ADDED(C) is created
C5_Witness ==
    /\ signalled = <<Event("GROUP_REMOVED", "B")>>
    /\ Ids(groups) = {"A"}
    /\ Len(setup_tasks) = 1
    /\ setup_tasks[1].id = "C"

\* C6: when the managed player has moved from one group to another across
\* two successive groups updates, then once the work these updates deferred
\* is done the player's active group is the group it moved to, and exactly
\* one PLAYER_UPDATED has been signalled for the move.
C6_MoveResolvesWithOneEvent ==
    (move.moved /\ raised = "none" /\ setup_tasks = <<>>) =>
        /\ player.active.id = move.to
        /\ player.active.attached
        /\ move.n = 1

\* C7: after a groups update that puts the managed player in a group has
\* been processed, the player's active group is an object that the snapshot
\* holds and that matches the player; never one that was removed.
C7_ActiveGroupInSnapshot ==
    (/\ last.op = "_handle_groups_event"
     /\ PlayerGroup(last.ev.groups) # "none"
     /\ raised = "none") =>
        /\ player.active.attached
        /\ HasId(groups, player.active.id)
        /\ Matches(groups[IndexOf(groups, player.active.id)])

\* C8: when the handling of one groups update returns, the ids of the
\* snapshot are the ids of that update.
C8_SnapshotIsTheUpdate ==
    last.op = "_handle_groups_event" => Ids(groups) = Ids(last.ev.groups)

\* ================================================ the claims, SpecEvents
\* the callbacks that the step has added to the scheduled ones
Added == SubSeq(scheduled', Len(scheduled) + 1, Len(scheduled'))

\* C9: signal_event(event) schedules the callback of a subscription once if
\* its event filter is absent or holds the event's kind and its object id
\* filter is absent or holds the event's object id, and not at all
\* otherwise; it schedules nothing else.
C9_ExactlyTheMatchingSubscribers ==
    [][\A e \in Events :
            Signal(e) =>
                /\ \A i \in DOMAIN subscribers :
                        Cardinality({j \in DOMAIN Added :
                                        /\ Added[j].h = subscribers[i].h
                                        /\ Added[j].cb = subscribers[i].cb
                                        /\ Added[j].event = e}) =
                        (IF /\ \/ subscribers[i].event_filter = NoFilter
                               \/ e.event \in Range(subscribers[i].event_filter.of)
                            /\ \/ subscribers[i].object_id_filter = NoFilter
                               \/ e.object_id \in Range(subscribers[i].object_id_filter.of)
                         THEN 1 ELSE 0)
                /\ \A j \in DOMAIN Added :
                        \E i \in DOMAIN subscribers : Added[j].h = subscribers[i].h
      ]_vars

\* a subscription without filters and one for GROUP_ADDED of "C": an event
\* of the right kind for another object was scheduled for the first only
C9_Witness ==
    /\ Len(subscribers) = 2
    /\ subscribers[1].event_filter = NoFilter
    /\ subscribers[1].object_id_filter = NoFilter
    /\ subscribers[2].event_filter = Tuple(<<"GROUP_ADDED">>)
    /\ subscribers[2].object_id_filter = Tuple(<<"C">>)
    /\ scheduled = <<[h |-> 1, cb |-> subscribers[1].cb,
                      event |-> Event("GROUP_ADDED", PlayerId)]>>

\* C10: calling again an unsubscribe handle that was called before does not
\* raise and leaves the subscribers unchanged.
C10_SecondUnsubscribeIsNoOp ==
    [][\A h \in DOMAIN handles :
            (handles[h].called /\ Unsubscribe(h)) =>
                (raised' = "none" /\ subscribers' = subscribers)]_vars

\* the listener tuples of the list that are equal to this one
Equal(subs, l) == {i \in DOMAIN subs : SameListener(subs[i], l)}

\* C11: calling unsubscribe handles, once or repeatedly, never removes the
\* registration of a handle that was not called: for every handle not yet
\* called, the subscribers hold as many tuples equal to its listener as
\* there are handles with that listener that were not called.
C11_OtherRegistrationsStay ==
    \A g \in DOMAIN handles :
        ~handles[g].called =>
            Cardinality(Equal(subscribers, handles[g].listener)) >=
            Cardinality({k \in DOMAIN handles :
                            /\ ~handles[k].called
                            /\ SameListener(handles[k].listener, handles[g].listener)})

\* C31: once the unsubscribe handle of a subscription has returned, the
\* callback of that subscription is not invoked again: the event loop runs
\* no scheduled callback of a subscription whose handle has returned, also
\* when the event was signalled before the handle was called.
C31_NoCallbackAfterUnsubscribe ==
    [][RunCallback => ~handles[Head(scheduled).h].returned]_vars

\* ------------------------------------------- overlapping connect() calls
\* the sockets that were opened and not closed or being closed
Open == {i \in DOMAIN socks : socks[i] = "open"}

\* C32: when connect() calls overlap, a call that starts while another one
\* is in its handshake fails with InvalidState; every socket that is open
\* is the one the instance holds, so at most one is open and none is left
\* unreferenced and unclosed; and a connect() during whose handshake a
\* disconnect() has returned leaves the instance disconnected.
C32_OverlappingConnects ==
    [][/\ ConnectBegin(MaxConns) /\ listener.pc = "handshake" =>
              conn'.err = "InvalidState" /\ conn'.pc = "idle"
       /\ StartListeningConnect(MaxConns) /\ conn.pc = "handshake" =>
              listener'.err = "InvalidState" /\ listener'.pc = "done"
       /\ \A i \in Open' : i = ws_client'
       /\ ConnectOk(MaxConns) /\ conn.stopped =>
              ~Connected(ws_client', socks')]_vars

\* ------------------------------------------------------------ tracked tasks
\* a tracked task that has not ended
Running(t) == t.st \in {"created", "sending"}

\* a call of disconnect() returns: at once, or when close() has returned
DisconnectCompletes ==
    \/ DisconnectCall /\ disc'.pc = "idle"
    \/ DisconnectEnd

\* C12: when disconnect() completes, no task tracked through create_task is
\* still running: every one of them has ended or was cancelled.
C12_DisconnectCancelsTasks ==
    [][DisconnectCompletes =>
          \A i \in DOMAIN tracked_tasks' : ~Running(tracked_tasks'[i])]_vars

\* ------------------------------------------------------ transport failures
\* C13: when receive() reports that the peer closed (ConnectionClosed) or
\* that the transport failed (ConnectionFailed), the receive loop ends, the
\* socket it read from is closed, the instance is not connected, no waiter
\* of the table stays pending, and _ws_client is cleared when start_listening
\* is left; start_listening returns normally on ConnectionClosed and raises
\* ConnectionFailed on a failure.
C13_TransportFailureDisconnects ==
    [][/\ \A m \in {CloseMsg, ErrorMsg} :
            ReceiveClosed(m) =>
                /\ listener'.pc \in {"closing", "done"}
                /\ listener'.err = (IF m = CloseMsg THEN "none" ELSE "ConnectionFailed")
                /\ socks'[listener.sock] = "closed"
                /\ ~Connected(ws_client', socks')
                /\ DOMAIN result_futures' = DOMAIN result_futures
                /\ \A k \in DOMAIN result_futures :
                      /\ result_futures'[k].st # "pending"
                      /\ result_futures[k].st = "pending" => result_futures'[k] = Cancelled
                /\ listener'.pc = "done" => ws_client' = 0
       /\ listener.pc = "closing" /\ listener'.pc = "done" =>
              ws_client' = 0 /\ listener'.err = listener.err]_vars

C13_Witness ==
    /\ listener.pc = "done"
    /\ listener.err = "ConnectionFailed"
    /\ ws_client = 0
    /\ socks = <<"closed">>
    /\ disc.pc = "idle"
    /\ caller[1].pc = "waiting"
    /\ result_futures[1] = Cancelled

\* C14: a single malformed inbound message (a frame that is not text, text
\* that is not JSON, JSON that is not a pair [header, body]) is dropped: the
\* receive loop goes on to the next receive() and the table of waiters is
\* as it was.
C14_MalformedIsDropped ==
    [][\A m \in Malformed :
          ReceiveMalformed(m) /\ ~stop_called =>
              /\ listener'.pc = "receive"
              /\ result_futures' = result_futures]_vars

\* ------------------------------------------------- connect and disconnect
\* sockets that were opened and are not closed
Live == {i \in DOMAIN socks : socks[i] # "closed"}

\* C15: connect() on an instance that holds a connection raises InvalidState
\* and leaves the socket and the table of waiters as they are; and at no
\* time has the instance more than one socket that is not closed.
C15_OneLiveSocket ==
    [][/\ ConnectBegin(MaxConns) /\ ws_client # 0 =>
              /\ conn'.err = "InvalidState"
              /\ conn'.pc = "idle"
              /\ UNCHANGED <<ws_client, socks, result_futures>>
       /\ Cardinality(Live') <= 1]_vars

\* the state a disconnect() that ran alone leaves: stopped, no socket held,
\* no waiter pending
Disconnected ==
    /\ stop_called
    /\ ws_client = 0
    /\ disc.pc = "idle"
    /\ \A k \in DOMAIN result_futures : result_futures[k].st # "pending"

\* C16: disconnect() can be called in any state; when a call returns (at
\* once, or after close() has returned) the socket it found is closed,
\* _ws_client is cleared and the instance is not connected; and a call made
\* on an instance that a disconnect() has left changes nothing: socket,
\* stop flag, table of waiters, callers and receive loop stay as they are.
C16_DisconnectIsIdempotent ==
    [][/\ disc.pc = "idle" => ENABLED DisconnectCall
       /\ DisconnectCall =>
              /\ stop_called'
              /\ \A k \in DOMAIN result_futures' : result_futures'[k].st # "pending"
       /\ DisconnectCompletes =>
              /\ ws_client' = 0
              /\ ~Connected(ws_client', socks')
              /\ disc.pc = "idle" /\ ws_client # 0 => socks'[ws_client] = "closed"
              /\ disc.pc = "closing" => socks'[disc.sock] = "closed"
              /\ stop_called'
              /\ disc'.pc = "idle"
       /\ DisconnectCall /\ Disconnected =>
              /\ UNCHANGED <<ws_client, socks, stop_called, result_futures,
                             loop, caller, listener, disc>>
              /\ conn'.pc = conn.pc /\ conn'.err = conn.err]_vars

C16_Witness ==
    /\ Disconnected
    /\ socks = <<"closed">>
    /\ listener.pc = "done"
    /\ 1 \in DOMAIN result_futures
    /\ result_futures[1] = Cancelled

\* C17: after a disconnect or a connection failure, connect() followed by
\* start_listening() gives a working connection: start_listening() called on
\* the freshly connected instance enters the receive loop.
C17_ReconnectListens ==
    [][StartListening /\ socks[ws_client] = "open" /\ disc.pc = "idle" =>
          listener'.pc = "receive"]_vars

\* ------------------------------------------------------------ frames
\* a frame that is a reply: its header has the key success.  (received is the
\* frame of the latest ReceivePush or ReceiveMalformed step, so a step is
\* ReceivePush(m) only when received' = m.)
IsReply(m) == "header" \in DOMAIN m /\ "success" \in DOMAIN m.header

\* C18: a reply whose cmdId has no waiter in the table (never registered,
\* the id of a no-wait send, or a waiter that was removed) is a silent
\* no-op: nothing is raised, the table, the callers, the tracked tasks and
\* the connection are as before, and the loop goes on to the next receive().
C18_UnknownReplyIsNoOp ==
    [][\A m \in {received'} :
          /\ IsReply(m)
          /\ m.header.cmdId \notin DOMAIN result_futures
          /\ ~stop_called
          /\ ReceivePush(m)
          => /\ listener'.pc = "receive"
             /\ listener'.err = "none"
             /\ UNCHANGED <<result_futures, caller, tracked_tasks, ws_client,
                            socks, stop_called, raised, clientVars>>]_vars

C18_Witness ==
    /\ IsReply(received)
    /\ received.header.cmdId = 1
    /\ listener.pc = "receive"
    /\ caller[1].pc = "done"
    /\ caller[1].outcome.st = "cancelled"
    /\ 1 \notin DOMAIN result_futures
    /\ ~stop_called

\* the namespaces whose event type is the type of the frame's header
Owners(m) ==
    IF "type" \in DOMAIN m.header
    THEN {Namespaces[i] : i \in {j \in DOMAIN Namespaces :
                                   EventTypeOf(Namespaces[j]) = m.header.type}}
    ELSE {}

\* C19: a frame whose header has success is a reply, also when it has a type,
\* and is never dispatched as an event; else a frame whose type is the event
\* type of a namespace adds exactly one handler task, for that namespace;
\* a frame with a type that no namespace owns, and a frame with neither
\* key, adds no task and changes nothing.
C19_Classification ==
    [][\A m \in {received'} \cap Frames :
          ReceivePush(m) =>
              /\ IsReply(m) => tracked_tasks' = tracked_tasks
              /\ ~IsReply(m) /\ Owners(m) # {} =>
                    /\ Len(tracked_tasks') = Len(tracked_tasks) + 1
                    /\ \A i \in DOMAIN tracked_tasks : tracked_tasks'[i] = tracked_tasks[i]
                    /\ \E ns \in Owners(m) :
                          tracked_tasks'[Len(tracked_tasks')] = Task("_handle_event", ns)
                    /\ ~stop_called => UNCHANGED <<result_futures, caller>>
              /\ ~IsReply(m) /\ Owners(m) = {} =>
                    /\ tracked_tasks' = tracked_tasks
                    /\ ~stop_called =>
                          /\ listener'.pc = "receive"
                          /\ UNCHANGED <<result_futures, caller, ws_client, socks,
                                         stop_called, raised, clientVars>>]_vars

C19_Witness ==
    /\ received \in Frames
    /\ received.header = [type |-> "playerVolume"]
    /\ tracked_tasks = <<Task("_handle_event", "player_volume")>>
    /\ listener.pc = "receive"
    /\ 1 \in DOMAIN result_futures
    /\ result_futures[1] = Pending

\* ----------------------------------------------------------- no-wait sends
\* a step of the task of a no-wait send: it starts, its send_bytes returns
\* or raises, its done callback runs
SendTaskStep ==
    \E i \in DOMAIN tracked_tasks :
        /\ tracked_tasks[i].target = "_send_message"
        /\ TaskRun(i) \/ TaskSent(i) \/ TaskDoneCallback(i)

\* C20: send_command_no_wait hands _send_message the frame send_command
\* builds for the same command, [CommandMessage, options], under a fresh
\* cmdId, and never adds an entry to the table of waiters: the table is the
\* same before the call, after it, and after every step of the background
\* send up to its end.
C20_NoWaitRegistersNothing ==
    [][/\ SendCommandNoWait =>
              /\ result_futures' = result_futures
              /\ Connected(ws_client, socks) =>
                    /\ tracked_tasks' = Append(tracked_tasks,
                                               Task("_send_message", Message(NoWaitId)))
                    /\ NoWaitId \notin DOMAIN result_futures'
       /\ SendTaskStep => result_futures' = result_futures]_vars

C20_Witness ==
    /\ tracked_tasks = <<[Task("_send_message", Message(NoWaitId)) EXCEPT !.st = "done"]>>
    /\ DOMAIN result_futures = {1}
    /\ result_futures[1] = Pending
    /\ caller[1].pc = "waiting"

\* C21: send_command and send_command_no_wait called on an instance that is
\* not connected raise InvalidState; the call does not reach the transport
\* (the caller is done at once, never sending), the table of waiters gets no
\* entry and no task is created.
C21_NotConnectedIsInvalidState ==
    [][/\ SendCommand(1) /\ ~Connected(ws_client, socks) =>
              /\ caller'[1].pc = "done"
              /\ caller'[1].outcome.st = "InvalidState"
              /\ UNCHANGED <<result_futures, tracked_tasks, socks, ws_client>>
       /\ SendCommandNoWait /\ ~Connected(ws_client, socks) =>
              /\ raised' = "InvalidState"
              /\ UNCHANGED <<result_futures, tracked_tasks, socks, ws_client, caller>>
       /\ ~Connected(ws_client, socks) /\ tracked_tasks' # tracked_tasks =>
              Len(tracked_tasks') <= Len(tracked_tasks)]_vars

C21_Witness ==
    /\ raised = "InvalidState"
    /\ caller[1].pc = "done"
    /\ caller[1].outcome.st = "InvalidState"
    /\ tracked_tasks = <<>>
    /\ DOMAIN result_futures = {}
    /\ socks = <<"closed">>

\* ------------------------------------------------------- supervised tasks
\* a tracked task that has ended and whose done callback has not run yet
Ended(t) == t.st \in {"done", "exception"}

\* a step that calls create_task: a no-wait send on a connected instance, or
\* a frame whose type a namespace owns
CreatesTask ==
    \/ SendCommandNoWait /\ Connected(ws_client, socks)
    \/ \E m \in {received'} \cap Frames : ReceivePush(m) /\ ~IsReply(m) /\ Owners(m) # {}

\* C22: the tracked tasks are the tasks made by create_task that have not
\* completed: a task enters the set when create_task makes it and only then,
\* it leaves the set through its done callback and only when it has ended,
\* and the done callback of every ended task is due.  A handler task that
\* fails is removed by its callback and logged with a warning; its failure
\* leaves the receive loop, the table of waiters and the callers as they are.
C22_TasksAreSupervised ==
    [][/\ Len(tracked_tasks') > Len(tracked_tasks) =>
              /\ CreatesTask
              /\ Len(tracked_tasks') = Len(tracked_tasks) + 1
              /\ tracked_tasks'[Len(tracked_tasks')].st = "created"
       /\ CreatesTask => Len(tracked_tasks') = Len(tracked_tasks) + 1
       /\ \A i \in DOMAIN tracked_tasks :
             /\ Ended(tracked_tasks[i]) => ENABLED TaskDoneCallback(i)
             /\ Running(tracked_tasks[i]) => ~ENABLED TaskDoneCallback(i)
             /\ TaskDoneCallback(i) =>
                   /\ tracked_tasks' = Without(tracked_tasks, i)
                   /\ logged' = "warning" <=> tracked_tasks[i].st = "exception"
                   /\ UNCHANGED <<listener, result_futures, caller>>
             /\ TaskRun(i) /\ tracked_tasks[i].target = "_handle_event" =>
                   /\ Ended(tracked_tasks'[i])
                   /\ UNCHANGED <<listener, result_futures, caller, ws_client, socks>>
       /\ Len(tracked_tasks') < Len(tracked_tasks) =>
              \E i \in DOMAIN tracked_tasks :
                  Ended(tracked_tasks[i]) /\ tracked_tasks' = Without(tracked_tasks, i)]_vars

C22_Witness ==
    /\ logged = "warning"
    /\ tracked_tasks = <<>>
    /\ received \in Frames
    /\ received.header = [type |-> "groups"]
    /\ listener.pc = "receive"
    /\ caller[1].pc = "waiting"
    /\ result_futures[1] = Pending

\* ------------------------------------------------------- repeated updates
\* C23: when the groups update that was just handled is handled again, no
\* group that _groups holds gets a GROUP_UPDATED, and the data stored for it
\* are the incoming data, also when the update leaves out an optional
\* attribute (playbackState) that an earlier update had.
C23_SameUpdateTwiceIsSilent ==
    last.op = "_handle_groups_event" =>
        \A i \in DOMAIN last.ev.groups :
            HasId(groups, last.ev.groups[i].id) =>
                LET grp == groups[IndexOf(groups, last.ev.groups[i].id)]
                IN /\ GroupUpdateData(grp, last.ev.groups[i].data).events = <<>>
                   /\ grp.data = last.ev.groups[i].data

\* ------------------------------------------------------------ the player
\* the data a Groups message has for the managed player
ManagedData(ev) ==
    ev.players[CHOOSE i \in DOMAIN ev.players : ev.players[i].id = PlayerId].data

\* the events of a sequence that are about object oid
About(events, oid) == {i \in DOMAIN events : events[i].object_id = oid}

\* C24: a groups update signals PLAYER_UPDATED for the managed player once
\* when its incoming attributes differ from the stored ones or the id of its
\* resolved active group differs from the id before the update, and not at
\* all otherwise; the entries of other players signal nothing and change
\* nothing.
C24_PlayerUpdatedExactlyOnChange ==
    [][last'.op = "_handle_groups_event" =>
          /\ Count(signalled', "PLAYER_UPDATED") =
                 (IF \/ ManagedData(last'.ev) # player.data
                     \/ player'.active.id # player.active.id
                  THEN 1 ELSE 0)
          /\ About(signalled', OtherId) = {}
          /\ player'.data = ManagedData(last'.ev)]_vars

\* C25: when no group of the snapshot matches the managed player, at the
\* construction of the player or in a later groups update, resolving the
\* active group raises nothing: the handler of a groups update ends without
\* an exception, and when a group of _groups matches afterwards the active
\* group is that group.
C25_NoMatchIsDeferred ==
    [][last'.op = "_handle_groups_event" =>
          /\ raised' = "none"
          /\ (\E i \in DOMAIN groups' : Matches(groups'[i])) =>
                /\ player'.active.attached
                /\ Matches(groups'[IndexOf(groups', player'.active.id)])]_vars

\* ------------------------------------------------------- correlation ids
\* a call of send_command whose frame is with the transport or was sent, and
\* that has not resumed
InProgress(c) == caller[c].pc \in {"sending", "waiting"}

\* C26: from the moment the frame of a command is handed to the transport
\* until its caller resumes, the command's waiter is in the table under the
\* command's cmdId, so a reply never finds a command without its waiter; and
\* two commands in progress at the same time have different cmdIds.
C26_RegisteredBeforeSent ==
    /\ \A c \in Callers : InProgress(c) => caller[c].cmdId \in DOMAIN result_futures
    /\ \A c, d \in Callers :
          InProgress(c) /\ InProgress(d) /\ c # d => caller[c].cmdId # caller[d].cmdId

C26_Witness ==
    /\ caller[1].pc = "waiting"
    /\ caller[2].pc = "sending"
    /\ result_futures[1] = Pending
    /\ result_futures[2] = Pending
    /\ listener.pc = "receive"

\* C27: a reply whose cmdId is a key of the table while its waiter is
\* already resolved or cancelled (a duplicate reply before the caller
\* resumed, a caller cancelled before its finally ran) raises nothing in
\* the receive loop: the loop goes on and the waiter keeps what it holds.
C27_LateReplyIsIgnored ==
    [][\A m \in Replies :
          /\ m.cmdId \in DOMAIN result_futures
          /\ result_futures[m.cmdId].st # "pending"
          /\ ~stop_called
          /\ ReceiveReply(m)
          => /\ listener'.pc = "receive"
             /\ listener'.err = "none"
             /\ result_futures' = result_futures]_vars

\* ------------------------------------------------------ after disconnect
\* disconnect() has completed and nothing is left to run: no socket is held,
\* no connect, disconnect or receive loop is under way, no send is in
\* flight and no caller has a done future to resume with
Settled ==
    /\ stop_called
    /\ ws_client = 0
    /\ disc.pc = "idle"
    /\ conn.pc = "idle"
    /\ listener.pc \in {"idle", "done"}
    /\ \A c \in Callers :
          /\ caller[c].pc # "sending"
          /\ caller[c].pc = "waiting" => result_futures[caller[c].cmdId].st = "pending"

\* C28: once disconnect() has completed and every step that was under way
\* has run, every send_command call has ended (no caller is suspended on its
\* waiter) and the table of waiters is empty.
C28_NothingLeftAfterDisconnect ==
    Settled =>
        /\ \A c \in Callers : caller[c].pc # "waiting"
        /\ DOMAIN result_futures = {}

\* ---------------------------------------------------- deferred insertions
\* C29: when the latest groups update has been handled and the last
\* _setup_group task that was waiting has run, the ids of the groups in
\* _groups are the ids of the groups of that update, also when the task was
\* created by an earlier update for a group the latest update no longer has.
C29_SnapshotIsLatestUpdate ==
    [][/\ last.op = "_handle_groups_event"
       /\ last'.op = "_setup_group"
       /\ setup_tasks' = <<>>
       => Ids(groups') = Ids(last.ev.groups)]_vars

\* C30: for every group id GROUP_ADDED and GROUP_REMOVED alternate, starting
\* with GROUP_ADDED.  A group is in _groups from its GROUP_ADDED to its
\* GROUP_REMOVED, so: GROUP_ADDED is signalled only for an id that _groups
\* does not hold, and GROUP_REMOVED only for an id that it holds; two updates
\* with the same new group give one GROUP_ADDED and one group object.
C30_AddedAndRemovedAlternate ==
    [][\A i \in DOMAIN signalled' :
          /\ signalled'[i].event = "GROUP_ADDED" =>
                signalled'[i].object_id \notin Ids(groups)
          /\ signalled'[i].event = "GROUP_REMOVED" =>
                signalled'[i].object_id \in Ids(groups)]_vars

====
